---- MODULE Spec2Model ----
(***************************************************************************)
(* State-machine model of voice_assistant.py: the AssistantFunction tool   *)
(* context, get_video_track, and entrypoint with its background            *)
(* process_video task, all running on one cooperative asyncio event loop.  *)
(*                                                                         *)
(* One action of a task is the code the task runs from one resumption to   *)
(* its next suspension (an await that has to wait): on a single event loop *)
(* nothing else runs in between.  The room, the video stream, the tool     *)
(* caller and the canceller of entrypoint are the environment.             *)
(***************************************************************************)
EXTENDS Integers, Sequences, FiniteSets, TLC

\* ------------------------------------------------------------- bounds
NumSlots == 2        \* track publications of remote participants, in enumeration order
MaxQueue == 2        \* frames buffered by the stream before the task is resumed

\* ------------------------------------------------------------- constants
MaxAttempts == 30    \* range(30) in get_video_track
None == 0            \* Python None, for a frame or a track

Slots == 1..NumSlots
\* Video frames: the code never looks into a frame, so two distinct ones are
\* enough to tell a repeated frame from a new one.
Frames == {1, 2}
Msgs == {"", "what do you see"}

\* What a track publication holds: no publication in the slot, a publication
\* whose track is None, a non-video track, or an rtc.RemoteVideoTrack.
Kinds == {"absent", "null", "audio", "video"}

SeeMsg == "I can see the current video feed. Let me analyze what's visible."
NoAccessMsg == "I don't currently have access to any images to analyze."

CONNECTED == "CONN_CONNECTED"
DISCONNECTED == "CONN_DISCONNECTED"
RECONNECTING == "CONN_RECONNECTING"

VARIABLES
    connection_state,  \* ctx.room.connection_state
    pubs,              \* Slots -> Kinds: the publications of the remote participants
    function_ctx,      \* the AssistantFunction object: [latest_image]
    mainpc,            \* where entrypoint is suspended, or how it ended
    main_cancel,       \* a cancellation of entrypoint is pending delivery
    main_exc,          \* the exception that left the idle loop, re-raised after finally
    vpc,               \* where process_video is suspended, or how it ended
    vcancel,           \* video_task.cancel() has been requested and not yet delivered
    search,            \* the current get_video_track call: passes, sleeps (and history)
    video_track,       \* the local video_track of process_video while it is live
                       \* (from its assignment to the end of the stream on it)
    queue,             \* frames the open VideoStream has buffered
    status,            \* the open VideoStream: "open", "eos" (ended), "err" (failed)
    hist               \* history: lifecycle events, last frame delivered, shadow cache

vars == <<connection_state, pubs, function_ctx, mainpc, main_cancel, main_exc, vpc,
          vcancel, search, video_track, queue, status, hist>>

\* ------------------------------------------------------------- AssistantFunction

\* AssistantFunction.__init__: no frame cached.
AssistantFunction_init == [latest_image |-> None]

\* `if self.latest_image:` -- an rtc.VideoFrame defines neither __bool__ nor
\* __len__, so every frame object is true and only None is false.
Truthy(image) == image # None

\* Mutant of analyze_image: an empty trigger message is answered as if no
\* frame were cached.
analyze_image_by_msg(self, user_msg) ==
    [ret  |-> IF Truthy(self.latest_image) /\ user_msg # "" THEN SeeMsg ELSE NoAccessMsg,
     self |-> self]

\* Mutant of analyze_image: the call consumes the cached frame.
analyze_image_consume(self, user_msg) ==
    [ret  |-> IF Truthy(self.latest_image) THEN SeeMsg ELSE NoAccessMsg,
     self |-> [self EXCEPT !.latest_image = None]]

\* AssistantFunction.analyze_image: the returned string and the object after the call.
analyze_image(self, user_msg) ==
    [ret  |-> IF Truthy(self.latest_image) THEN SeeMsg ELSE NoAccessMsg,
     self |-> self]

\* Mutant of update_image: only the first frame is ever cached.
update_image_keep_first(self, image) ==
    IF self.latest_image = None THEN [self EXCEPT !.latest_image = image] ELSE self

\* Mutant of update_image: a frame equal to the cached one clears the cache.
update_image_toggle(self, image) ==
    [self EXCEPT !.latest_image = IF @ = image THEN None ELSE image]

\* AssistantFunction.update_image: the object after the call.
update_image(self, image) == [self EXCEPT !.latest_image = image]

\* ------------------------------------------------------------- get_video_track

\* Mutant of IsVideoPublication: the isinstance test is left out.
IsVideoPublication_any_track(kind) == kind # "absent" /\ kind # "null"

\* The test of one publication: track is not None and isinstance(track, RemoteVideoTrack).
IsVideoPublication(kind) == kind # "absent" /\ kind # "null" /\ kind = "video"

\* One enumeration pass from slot s on: the first publication that passes the
\* test, or None when the pass falls through to the sleep.
RECURSIVE ScanPublications(_, _)
ScanPublications(p, s) ==
    IF s > NumSlots THEN None
    ELSE IF IsVideoPublication(p[s]) THEN s
    ELSE ScanPublications(p, s + 1)

\* Mutant of MorePasses: one attempt short.
MorePasses_short(n) == n < MaxAttempts - 1

\* `for _ in range(30)`: after n passes the loop runs another pass iff n < 30.
MorePasses(n) == n < MaxAttempts

\* ------------------------------------------------------------- process_video helpers

\* Mutant of DrainFrames: a wake-up that finds no frame clears the cache.
DrainFrames_clear_when_empty(self, q) ==
    IF q = <<>> THEN [self EXCEPT !.latest_image = None]
    ELSE update_image(self, q[Len(q)])

\* `async for event in VideoStream(track): function_ctx.update_image(event.frame)`
\* run over every frame already buffered: Queue.get() does not suspend while
\* the queue is non-empty.
RECURSIVE DrainFrames(_, _)
DrainFrames(self, q) ==
    IF q = <<>> THEN self
    ELSE DrainFrames(update_image(self, Head(q)), Tail(q))

\* Mutant of OnVideoError: the handler leaves the loop instead of sleeping.
OnVideoError_break == "done"

\* Mutant of OnVideoError: no handler, the error ends the task.
OnVideoError_propagates == "failed"

\* `except Exception as e: print(...); await asyncio.sleep(1)`: where the task
\* is after an error raised inside the inner try.
OnVideoError == "err_sleep"

\* Mutant of ErrorHandlerCtx: the handler drops the cached frame.
ErrorHandlerCtx_clears(self) == [self EXCEPT !.latest_image = None]

\* The tool context after the error handler has run (lines 123-125): the
\* handler prints and sleeps, it assigns nothing.
ErrorHandlerCtx(self) == self

\* Mutant of OnCancel: CancelledError is caught by the inner handler.
OnCancel_absorbed == "err_sleep"

\* asyncio.CancelledError derives from BaseException: neither `except Exception`
\* catches it, and the task ends cancelled.
OnCancel == "cancelled"

\* Mutant of RequestCancel: the finally block awaits without cancelling.
RequestCancel_missing == FALSE

\* video_task.cancel() on a task that has not finished.
RequestCancel == TRUE

Terminated == {"done", "cancelled", "failed"}
MainEnded == {"returned", "raised"}

\* Room has a video track right now (history only, not what the code computes).
HasVideo(p) == \E s \in Slots : p[s] = "video"

\* No get_video_track call is in progress and none has just returned None: its
\* locals are gone.
NoSearch == [passes |-> 0, sleeps |-> 0, seen |-> FALSE, saw |-> FALSE, ret |-> "idle"]

Lifecycle == <<"connect", "start", "greet", "task", "idle_exit", "cancel">>

\* ------------------------------------------------------------- initial state

Init ==
    /\ connection_state = DISCONNECTED
    /\ pubs = [s \in Slots |-> "absent"]
    /\ function_ctx = AssistantFunction_init
    /\ mainpc = "connect"
    /\ main_cancel = FALSE
    /\ main_exc = FALSE
    /\ vpc = "none"
    /\ vcancel = FALSE
    /\ search = NoSearch
    /\ video_track = None
    /\ queue = <<>>
    /\ status = "closed"
    /\ hist = [events |-> <<>>, last |-> None, rel |-> "none",
               shadow |-> AssistantFunction_init]

\* ------------------------------------------------------------- process_video

\* History: the cache as it would be had each run of identical consecutive
\* frames been applied once only.
RECURSIVE ShadowDrain(_, _, _)
ShadowDrain(shadow, prev, q) ==
    IF q = <<>> THEN shadow
    ELSE ShadowDrain(IF Head(q) = prev THEN shadow ELSE update_image(shadow, Head(q)),
                     Head(q), Tail(q))

\* History: how the last frame delivered relates to the one delivered before
\* it (kept until the stream receives another frame or is left).
RECURSIVE RelDrain(_, _, _)
RelDrain(rel, prev, q) ==
    IF q = <<>> THEN rel
    ELSE RelDrain(IF prev = None THEN "first" ELSE IF Head(q) = prev THEN "same" ELSE "diff",
                  Head(q), Tail(q))

\* CancelledError thrown into the task at the await it is suspended on.
Cancelled ==
    /\ vpc' = OnCancel
    /\ vcancel' = FALSE
    /\ queue' = <<>>
    /\ status' = "closed"
    /\ search' = NoSearch
    /\ video_track' = None

\* One enumeration pass of get_video_track, after n passes and sl sleeps of the
\* same call: return the track found and open the stream on it (lines 75,
\* 118-119), or fall through to `await asyncio.sleep(1)` (line 76).
Pass(n, sl, seen, saw) ==
    LET t == ScanPublications(pubs, 1)
        now == HasVideo(pubs)
    IN  IF t # None
        THEN /\ search' = [NoSearch EXCEPT !.ret = "track", !.saw = now]
             /\ video_track' = t
             /\ vpc' = "stream"
             /\ queue' = <<>>
             /\ status' = "open"
        ELSE /\ search' = [passes |-> n + 1, sleeps |-> sl + 1, seen |-> seen \/ now,
                           saw |-> saw \/ now, ret |-> "pending"]
             /\ vpc' = "search_sleep"
             /\ queue' = <<>>
             /\ status' = "closed"
             /\ video_track' = None

\* get_video_track raises during a pass: caught at line 123.
SearchError(n, sl, seen, saw) ==
    /\ search' = [NoSearch EXCEPT !.ret = "raised"]
    /\ vpc' = OnVideoError
    /\ queue' = <<>>
    /\ status' = "closed"
    /\ video_track' = None

\* Line 110: the loop condition, then a fresh get_video_track call.
LoopTop ==
    IF connection_state = CONNECTED
    THEN Pass(0, 0, FALSE, FALSE) \/ SearchError(0, 0, FALSE, FALSE)
    ELSE /\ vpc' = "done"
         /\ queue' = <<>>
         /\ status' = "closed"
         /\ search' = NoSearch
         /\ video_track' = None

\* Mutant of ReturnNone: the caller goes on to open a stream on the absent track.
ReturnNone_no_check ==
    /\ search' = [search EXCEPT !.ret = "None"]
    /\ video_track' = None
    /\ vpc' = "stream"
    /\ queue' = <<>>
    /\ status' = "open"

\* get_video_track returns None after the loop (line 78); the caller prints and
\* awaits asyncio.sleep(2) (lines 113-115).
ReturnNone ==
    /\ search' = [search EXCEPT !.ret = "None"]
    /\ video_track' = None
    /\ vpc' = "backoff"
    /\ queue' = <<>>
    /\ status' = "closed"

notVideo == <<connection_state, pubs, mainpc, main_cancel, main_exc>>

\* The task's first step.
VStart ==
    /\ vpc = "created"
    /\ IF vcancel THEN Cancelled ELSE LoopTop /\ UNCHANGED vcancel
    /\ UNCHANGED <<notVideo, function_ctx, hist>>

\* Resumed from the sleep of get_video_track.
SearchWake ==
    /\ vpc = "search_sleep"
    /\ IF vcancel THEN Cancelled
       ELSE /\ UNCHANGED vcancel
            /\ IF MorePasses(search.passes)
               THEN \/ Pass(search.passes, search.sleeps, search.seen, search.saw)
                    \/ SearchError(search.passes, search.sleeps, search.seen, search.saw)
               ELSE ReturnNone
    /\ UNCHANGED <<notVideo, function_ctx, hist>>

\* Resumed from the sleep after "No video track found" (line 115), then `continue`.
BackoffWake ==
    /\ vpc = "backoff"
    /\ IF vcancel THEN Cancelled ELSE LoopTop /\ UNCHANGED vcancel
    /\ UNCHANGED <<notVideo, function_ctx, hist>>

\* Resumed from the sleep of the error handler (line 125).
ErrWake ==
    /\ vpc = "err_sleep"
    /\ IF vcancel THEN Cancelled ELSE LoopTop /\ UNCHANGED vcancel
    /\ UNCHANGED <<notVideo, function_ctx, hist>>

\* Resumed inside `async for` (lines 119-121): buffered frames go to
\* update_image one after the other, then the stream is awaited again, has
\* ended, or has failed.  Whether the stream hands over all buffered frames
\* without suspending the task in between is the SDK's business: the step
\* takes any non-empty prefix of the buffer.
StreamWake ==
    /\ vpc = "stream"
    /\ vcancel \/ queue # <<>> \/ status # "open"
    /\ IF vcancel
       THEN /\ Cancelled
            /\ hist' = [hist EXCEPT !.rel = "none"]
            /\ UNCHANGED function_ctx
       ELSE /\ UNCHANGED vcancel
            /\ \E k \in (IF queue = <<>> THEN {0} ELSE 1..Len(queue)) :
                  LET taken == SubSeq(queue, 1, k)
                      rest  == SubSeq(queue, k + 1, Len(queue))
                      stay  == rest # <<>> \/ status = "open"
                  IN  /\ function_ctx' = IF ~stay /\ status = "err"
                                          THEN ErrorHandlerCtx(DrainFrames(function_ctx, taken))
                                          ELSE DrainFrames(function_ctx, taken)
                      /\ hist' = [hist EXCEPT
                                    !.last = IF k > 0 THEN taken[k] ELSE @,
                                    !.rel = IF stay /\ rest = <<>>
                                            THEN RelDrain(@, hist.last, taken)
                                            ELSE "none",
                                    !.shadow = ShadowDrain(@, hist.last, taken)]
                      /\ CASE stay ->
                                /\ queue' = rest
                                /\ UNCHANGED <<vpc, status, search, video_track>>
                           [] ~stay /\ status = "eos" -> LoopTop
                           [] OTHER ->
                                /\ vpc' = OnVideoError
                                /\ queue' = <<>>
                                /\ status' = "closed"
                                /\ search' = NoSearch
                                /\ video_track' = None
    /\ UNCHANGED notVideo

\* ------------------------------------------------------------- entrypoint

\* Mutant of AwaitOutcome: the task's CancelledError is not swallowed.
AwaitOutcome_no_swallow(v, exc) ==
    IF v \in {"failed", "cancelled"} \/ exc THEN "raised" ELSE "returned"

\* `await video_task` completing (lines 138-141) for a task that ended as v,
\* with exc telling whether an exception is waiting for the finally block to
\* finish: a CancelledError from the task is swallowed, anything else the task
\* raised propagates, and a pending exception is re-raised.
AwaitOutcome(v, exc) ==
    IF v = "failed" \/ exc THEN "raised" ELSE "returned"

\* Mutant of Finally: the cleanup follows the loop instead of standing in a
\* finally clause, so an exception leaving the loop skips it.
Finally_after_loop(v, exc, ev) ==
    IF exc
    THEN /\ hist' = [hist EXCEPT !.events = ev]
         /\ mainpc' = "raised"
         /\ main_exc' = FALSE
         /\ UNCHANGED vcancel
    ELSE /\ hist' = [hist EXCEPT !.events = ev \o <<"idle_exit", "cancel">>]
         /\ IF v \in Terminated
            THEN /\ mainpc' = AwaitOutcome(v, exc)
                 /\ main_exc' = FALSE
                 /\ UNCHANGED vcancel
            ELSE /\ vcancel' = RequestCancel
                 /\ mainpc' = "await_task"
                 /\ main_exc' = exc

\* The finally block (lines 136-141), entered with the task in state v:
\* cancel() is a no-op on a finished task and awaiting one does not suspend.
Finally(v, exc, ev) ==
    /\ hist' = [hist EXCEPT !.events = ev \o <<"idle_exit", "cancel">>]
    /\ IF v \in Terminated
       THEN /\ mainpc' = AwaitOutcome(v, exc)
            /\ main_exc' = FALSE
            /\ UNCHANGED vcancel
       ELSE /\ vcancel' = RequestCancel
            /\ mainpc' = "await_task"
            /\ main_exc' = exc

\* CancelledError delivered to entrypoint at an await before the try block.
MainCancelled ==
    /\ mainpc' = "raised"
    /\ main_cancel' = FALSE

videoVars == <<vpc, vcancel, search, video_track, queue, status>>

\* `await ctx.connect()` completes; lines 84-96 build the agent, the tool
\* context and the session; `await session.start(...)` begins.
Connect ==
    /\ mainpc = "connect"
    /\ IF main_cancel
       THEN MainCancelled /\ UNCHANGED <<connection_state, function_ctx, hist>>
       ELSE /\ connection_state' = CONNECTED
            /\ function_ctx' = AssistantFunction_init
            /\ mainpc' = "start"
            /\ hist' = [hist EXCEPT !.events = Append(@, "connect")]
            /\ UNCHANGED main_cancel
    /\ UNCHANGED <<pubs, main_exc, videoVars>>

\* `await session.start(...)` completes; `await session.generate_reply(...)` begins.
StartDone ==
    /\ mainpc = "start"
    /\ IF main_cancel
       THEN MainCancelled /\ UNCHANGED hist
       ELSE /\ mainpc' = "greet"
            /\ hist' = [hist EXCEPT !.events = Append(@, "start")]
            /\ UNCHANGED main_cancel
    /\ UNCHANGED <<connection_state, pubs, function_ctx, main_exc, videoVars>>

\* The greeting completes; the task is created (line 130) and the idle loop is
\* entered (line 134): it sleeps, or is left at once when not connected.
GreetDone ==
    /\ mainpc = "greet"
    /\ IF main_cancel
       THEN MainCancelled /\ UNCHANGED <<hist, vpc, vcancel, main_exc>>
       ELSE /\ vpc' = "created"
            /\ UNCHANGED main_cancel
            /\ IF connection_state = CONNECTED
               THEN /\ mainpc' = "idle_sleep"
                    /\ hist' = [hist EXCEPT !.events = @ \o <<"greet", "task">>]
                    /\ UNCHANGED <<vcancel, main_exc>>
               ELSE Finally("created", FALSE, hist.events \o <<"greet", "task">>)
    /\ UNCHANGED <<connection_state, pubs, function_ctx, search, video_track, queue,
                   status>>

\* Mutant of IdleWake: the task is cancelled from inside the loop, which goes on.
IdleWake_cancel_in_loop ==
    /\ mainpc = "idle_sleep"
    /\ vcancel' = (vpc \notin Terminated)
    /\ UNCHANGED <<connection_state, pubs, function_ctx, mainpc, main_cancel, main_exc,
                   vpc, search, video_track, queue, status, hist>>

\* Resumed from `await asyncio.sleep(1)` in the idle loop (line 135).
IdleWake ==
    /\ mainpc = "idle_sleep"
    /\ IF main_cancel
       THEN main_cancel' = FALSE /\ Finally(vpc, TRUE, hist.events)
       ELSE /\ UNCHANGED main_cancel
            /\ IF connection_state = CONNECTED
               THEN UNCHANGED <<mainpc, main_exc, vcancel, hist>>
               ELSE Finally(vpc, FALSE, hist.events)
    /\ UNCHANGED <<connection_state, pubs, function_ctx, vpc, search, video_track,
                   queue, status>>

\* Resumed from `await video_task` (line 139) once the task has ended.
AwaitDone ==
    /\ mainpc = "await_task"
    /\ vpc \in Terminated
    /\ mainpc' = AwaitOutcome(vpc, main_exc)
    /\ main_exc' = FALSE
    /\ UNCHANGED <<connection_state, pubs, function_ctx, main_cancel, videoVars, hist>>

\* ------------------------------------------------------------- environment

SessionLive == mainpc \notin ({"connect"} \cup MainEnded)

\* The framework cancels the entrypoint task while it is suspended.  While it
\* awaits video_task the cancellation is passed on to that task (Task.cancel
\* cancels the awaited future) and comes back as the task's CancelledError.
CancelEntrypoint ==
    /\ mainpc \notin MainEnded
    /\ ~main_cancel
    /\ IF mainpc = "await_task"
       THEN /\ vpc \notin Terminated
            /\ ~vcancel
            /\ vcancel' = RequestCancel
            /\ UNCHANGED main_cancel
       ELSE main_cancel' = TRUE /\ UNCHANGED vcancel
    /\ UNCHANGED <<connection_state, pubs, function_ctx, mainpc, main_exc, vpc, search,
                   video_track, queue, status, hist>>

\* The room's connection state changes: the connection is lost for good, a
\* reconnection starts, or a reconnection succeeds.
ConnectionChange ==
    /\ SessionLive
    /\ \/ connection_state # DISCONNECTED /\ connection_state' = DISCONNECTED
       \/ connection_state = CONNECTED /\ connection_state' = RECONNECTING
       \/ connection_state = RECONNECTING /\ connection_state' = CONNECTED
    /\ UNCHANGED <<pubs, function_ctx, mainpc, main_cancel, main_exc, videoVars, hist>>

\* A remote participant publishes, subscribes, replaces or unpublishes a track.
PublicationChange ==
    /\ SessionLive
    /\ connection_state = CONNECTED
    /\ \E s \in Slots, k \in Kinds :
          /\ pubs[s] # k
          /\ pubs' = [pubs EXCEPT ![s] = k]
          /\ search' = IF vpc = "search_sleep"
                       THEN [search EXCEPT !.seen = @ \/ k = "video"]
                       ELSE search
    /\ UNCHANGED <<connection_state, function_ctx, mainpc, main_cancel, main_exc, vpc,
                   vcancel, video_track, queue, status, hist>>

\* The open stream receives a frame.
FrameArrives ==
    /\ vpc = "stream"
    /\ status = "open"
    /\ Len(queue) < MaxQueue
    /\ \E f \in Frames : queue' = Append(queue, f)
    /\ hist' = [hist EXCEPT !.rel = "none"]
    /\ UNCHANGED <<connection_state, pubs, function_ctx, mainpc, main_cancel, main_exc,
                   vpc, vcancel, search, video_track, status>>

\* The open stream ends (the track is closed) or fails.
StreamCloses ==
    /\ vpc = "stream"
    /\ status = "open"
    /\ status' \in {"eos", "err"}
    /\ UNCHANGED <<connection_state, pubs, function_ctx, mainpc, main_cancel, main_exc,
                   vpc, vcancel, search, video_track, queue, hist>>

\* The analyze_image tool is called with some trigger message and returns its
\* string to the caller; the program keeps nothing of the call.
AnalyzeImage ==
    /\ SessionLive
    /\ \E m \in Msgs :
          LET r == analyze_image(function_ctx, m)
          IN  function_ctx' = r.self
    /\ UNCHANGED <<connection_state, pubs, mainpc, main_cancel, main_exc, videoVars, hist>>

\* ------------------------------------------------------------- specification

MainStep == Connect \/ StartDone \/ GreetDone \/ IdleWake \/ AwaitDone
VideoStep == VStart \/ SearchWake \/ BackoffWake \/ ErrWake \/ StreamWake
EnvStep == CancelEntrypoint \/ ConnectionChange \/ PublicationChange \/ FrameArrives
              \/ StreamCloses \/ AnalyzeImage

Next == MainStep \/ VideoStep \/ EnvStep

Spec == Init /\ [][Next]_vars

\* The event loop runs every task that is ready: a sleep or an await that can
\* complete does complete.  Nothing obliges the environment to act.
FairSpec == Spec /\ WF_vars(MainStep) /\ WF_vars(VideoStep)

TypeOK ==
    /\ connection_state \in {CONNECTED, DISCONNECTED, RECONNECTING}
    /\ pubs \in [Slots -> Kinds]
    /\ function_ctx.latest_image \in Frames \cup {None}
    /\ mainpc \in {"connect", "start", "greet", "idle_sleep", "await_task"} \cup MainEnded
    /\ vpc \in {"none", "created", "search_sleep", "backoff", "stream", "err_sleep"}
                 \cup Terminated
    /\ search.passes \in 0..MaxAttempts
    /\ search.sleeps \in 0..MaxAttempts
    /\ video_track \in Slots \cup {None}
    /\ Len(queue) <= MaxQueue

\* ------------------------------------------------------------- C1

\* C1: in every reachable state and for every trigger message, analyze_image
\* returns the "I can see" string exactly when a frame is cached and the
\* "I don't currently have access" string otherwise, whatever the message.
C1_AnalyzeImage ==
    \A m \in Msgs :
        analyze_image(function_ctx, m).ret =
           IF function_ctx.latest_image # None THEN SeeMsg ELSE NoAccessMsg

\* The tool can be called, a frame is cached, and a call with the empty
\* message is answered "I can see".
C1_Witness ==
    /\ SessionLive
    /\ function_ctx.latest_image # None
    /\ analyze_image(function_ctx, "").ret = SeeMsg

\* ------------------------------------------------------------- C2

\* C2 (as stated): a call of get_video_track returns None only if no remote
\* video track was published at any point of its polling window, and then
\* after exactly 30 passes and 30 sleeps.
C2_Original ==
    search.ret = "None" =>
        /\ ~search.seen
        /\ search.passes = MaxAttempts
        /\ search.sleeps = MaxAttempts

\* C2 (amended): a call of get_video_track returns a track exactly when one of
\* its enumeration passes runs while a remote video track is published, and it
\* returns at the first such pass; otherwise it returns None after exactly 30
\* passes, each followed by a sleep.
C2_Amended ==
    /\ search.ret = "None" =>
          /\ ~search.saw
          /\ search.passes = MaxAttempts
          /\ search.sleeps = MaxAttempts
    /\ search.ret = "pending" =>
          /\ vpc = "search_sleep"
          /\ ~search.saw
          /\ search.passes \in 1..MaxAttempts
          /\ search.sleeps = search.passes
    /\ search.ret = "track" => search.saw /\ video_track # None

\* The call returned None although a video track was published during its
\* window: between two passes, or during the sleep after the last pass.
C2_Witness ==
    /\ search.ret = "None"
    /\ search.seen
    /\ search.passes = MaxAttempts
    /\ search.sleeps = MaxAttempts

\* ------------------------------------------------------------- C3

\* C3 (as stated): once the background task exists, from every state in which
\* the room is not connected entrypoint eventually ends.
C3_Original ==
    (vpc # "none" /\ connection_state # CONNECTED) ~> (mainpc \in MainEnded)

\* C3 (amended): once the background task exists, from every state in which
\* the room is disconnected for good entrypoint eventually ends, whatever the
\* background task is doing.
C3_Amended ==
    (vpc # "none" /\ connection_state = DISCONNECTED) ~> (mainpc \in MainEnded)

\* The idle loop saw the disconnection, the task was cancelled while blocked
\* on the stream, and entrypoint returned.
C3_Witness ==
    /\ mainpc = "returned"
    /\ vpc = "cancelled"
    /\ connection_state = DISCONNECTED

\* ------------------------------------------------------------- C4

\* C4: the cached frame is always the most recent frame the stream delivered
\* (None before the first delivery).
C4_LatestFrame == function_ctx.latest_image = hist.last

\* A delivered frame has replaced a different frame delivered before it.
C4_Witness ==
    /\ hist.rel = "diff"
    /\ function_ctx.latest_image # None

\* ------------------------------------------------------------- C5

\* C5: the lifecycle steps happen in the order connect, start session, greet,
\* start the background task, leave the idle loop, cancel the task, each after
\* the one before it has completed; the task does not exist and no frame is
\* cached before the greeting has completed, and cancellation is not requested
\* before the idle loop has been left.
C5_Lifecycle ==
    /\ Len(hist.events) <= Len(Lifecycle)
    /\ \A i \in 1..Len(hist.events) : hist.events[i] = Lifecycle[i]
    /\ mainpc = "start" => hist.events = <<"connect">>
    /\ mainpc = "greet" => hist.events = <<"connect", "start">>
    /\ mainpc = "idle_sleep" => hist.events = <<"connect", "start", "greet", "task">>
    /\ mainpc = "await_task" => hist.events = Lifecycle
    /\ mainpc = "returned" => hist.events = Lifecycle
    /\ vpc # "none" => Len(hist.events) >= 4
    /\ function_ctx.latest_image # None => Len(hist.events) >= 4
    /\ (vcancel \/ vpc = "cancelled") => hist.events = Lifecycle

\* A whole run: every step taken, the task cancelled, entrypoint returned.
C5_Witness ==
    /\ mainpc = "returned"
    /\ hist.events = Lifecycle
    /\ vpc = "cancelled"
    /\ function_ctx.latest_image # None

\* ------------------------------------------------------------- C6

\* A step of the background task in which the stream's error is raised.
StreamErrorRaised ==
    vpc = "stream" /\ status = "err" /\ ~vcancel /\ vpc' # "stream"

\* A step that starts a get_video_track call from its first pass: the pass
\* finds nothing and the call sleeps, or it finds a track and the stream is
\* opened, or the call raises and the handler sleeps.
FreshSearch ==
    \/ vpc' = "search_sleep" /\ search'.passes = 1 /\ search'.sleeps = 1
    \/ vpc' = "stream" /\ search'.ret = "track" /\ video_track' # None
    \/ vpc' = "err_sleep" /\ search'.ret = "raised"

\* C6: an error raised by the track search or the video stream never ends the
\* background task and never reaches entrypoint: the task sleeps in the
\* handler and, resumed while the room is connected and no cancellation is
\* pending, starts the track search afresh, with no count of the errors kept.
\* The task ends only cancelled or because the room is no longer connected.
C6_ErrorsTransient ==
    /\ [](vpc # "failed")
    /\ [][/\ StreamErrorRaised => vpc' = "err_sleep"
          /\ (vpc' \in Terminated /\ vpc \notin Terminated) =>
                \/ vpc' = "cancelled" /\ vcancel
                \/ vpc' = "done" /\ connection_state # CONNECTED
          /\ (mainpc' = "raised" /\ mainpc # "raised") => main_cancel \/ main_exc
          /\ (vpc = "err_sleep" /\ ~vcancel /\ connection_state = CONNECTED
                 /\ vpc' # "err_sleep") => FreshSearch
         ]_vars

\* The stream failed after delivering a frame; the error was caught and the
\* task sleeps in the handler, the room connected and no cancellation pending.
C6_Witness ==
    /\ vpc = "err_sleep"
    /\ function_ctx.latest_image # None
    /\ connection_state = CONNECTED
    /\ ~vcancel
    /\ mainpc = "idle_sleep"

\* ------------------------------------------------------------- C7

\* C7: when the idle loop is left because the room is not connected,
\* cancellation of the task is requested before it is awaited, entrypoint ends
\* only after the task has ended, and it returns normally: the task's
\* CancelledError is swallowed.
C7_CancelThenAwait ==
    /\ [](mainpc = "await_task" => vcancel \/ vpc \in Terminated)
    /\ []((mainpc \in MainEnded /\ vpc # "none") => vpc \in Terminated)
    /\ [][/\ (mainpc = "idle_sleep" /\ ~main_cancel /\ mainpc' # "idle_sleep") =>
                /\ connection_state # CONNECTED
                /\ \/ mainpc' = "await_task" /\ vcancel' /\ ~main_exc'
                   \/ mainpc' = "returned" /\ vpc \in Terminated
          /\ (mainpc = "await_task" /\ ~main_exc /\ mainpc' # "await_task") =>
                /\ mainpc' = "returned"
                /\ vpc \in Terminated
         ]_vars

\* entrypoint returned normally after awaiting a task that ended cancelled.
C7_Witness ==
    /\ mainpc = "returned"
    /\ vpc = "cancelled"
    /\ connection_state # CONNECTED

\* ------------------------------------------------------------- C8

\* C8: when get_video_track returns None the background task backs off in a
\* sleep and, resumed while the room is connected (and not cancelled), starts
\* the search again from its first pass with the whole budget of 30; a stream
\* is only ever opened on a track that was found.
C8_BackoffRetry ==
    /\ [](search.ret = "None" => vpc = "backoff" /\ video_track = None)
    /\ [](vpc = "stream" => video_track # None)
    /\ [][(vpc = "backoff" /\ ~vcancel /\ connection_state = CONNECTED
              /\ <<vpc, search>>' # <<vpc, search>>) => FreshSearch
         ]_vars

\* The search has given up and the task is backing off, the room connected.
C8_Witness ==
    /\ vpc = "backoff"
    /\ search.ret = "None"
    /\ search.passes = MaxAttempts
    /\ connection_state = CONNECTED
    /\ ~vcancel

\* ------------------------------------------------------------- C9

\* C9: the cached frame changes only in a step of the background task that
\* delivers frames from the stream, and becomes one of the frames the stream
\* held; no tool call, and no other step, changes it.
C9_SingleWriter ==
    [][function_ctx' # function_ctx =>
          /\ vpc = "stream"
          /\ ~vcancel
          /\ \E k \in 1..Len(queue) : function_ctx'.latest_image = queue[k]
      ]_vars

\* Reader and writer are both about to act: the tool can be called on a
\* cached frame while the stream holds a different frame for the task.
C9_Witness ==
    /\ SessionLive
    /\ function_ctx.latest_image # None
    /\ vpc = "stream"
    /\ ~vcancel
    /\ queue # <<>>
    /\ queue[Len(queue)] # function_ctx.latest_image

\* ------------------------------------------------------------- C10

\* C10: delivering a frame identical to the one delivered just before it
\* changes nothing: the cache equals the cache obtained by applying each run of
\* identical consecutive frames once, and analyze_image answers the same on both.
C10_Idempotent ==
    /\ hist.shadow = function_ctx
    /\ \A m \in Msgs :
          analyze_image(hist.shadow, m).ret = analyze_image(function_ctx, m).ret

\* The last frame delivered was identical to the one delivered before it.
C10_Witness ==
    /\ hist.rel = "same"
    /\ function_ctx.latest_image # None

\* ------------------------------------------------------------- C11

\* The stream of the current track has ended or failed and the room is connected.
StreamOver ==
    vpc = "stream" /\ status \in {"eos", "err"} /\ connection_state = CONNECTED

\* A get_video_track call is in progress or has just raised or returned None,
\* or it has returned a track and the stream on it is open.
Searching ==
    \/ search.ret \in {"pending", "raised", "None"}
    \/ vpc = "stream" /\ status = "open"

\* C11 as stated: whenever the stream of the current track has ended, normally
\* or with an error, while the room is connected, the background task
\* eventually starts a new track search.
C11_Original == StreamOver ~> Searching

\* C11: after the stream of the current track has ended, normally or with an
\* error, the background task eventually starts a new track search or
\* terminates, and it terminates only when cancelled or when it finds the room
\* not connected at the loop condition; when it leaves the ended stream or the
\* handler's sleep with the room connected and no cancellation pending, the
\* step starts a get_video_track call from its first pass.
C11_Amended ==
    /\ StreamOver ~> (Searching \/ vpc \in Terminated)
    /\ [][/\ (vpc' \in Terminated /\ vpc \notin Terminated) =>
                (vcancel \/ connection_state # CONNECTED)
          /\ (StreamOver /\ status = "eos" /\ ~vcancel /\ status' # "eos") => FreshSearch
          /\ (vpc = "err_sleep" /\ search.ret = "idle" /\ ~vcancel
                 /\ connection_state = CONNECTED /\ vpc' # "err_sleep") => FreshSearch
         ]_vars

\* A frame was cached, so a stream was open and is over; the room is still
\* connected and a new get_video_track call is sleeping between passes.
C11_Witness ==
    /\ vpc = "search_sleep"
    /\ function_ctx.latest_image # None
    /\ connection_state = CONNECTED
    /\ ~vcancel
    /\ mainpc = "idle_sleep"

\* ------------------------------------------------------------- C12

\* A step in which get_video_track returns a track and the stream on it is opened.
TrackReturned ==
    vpc' = "stream" /\ status' = "open" /\ (vpc # "stream" \/ status # "open")

\* C12: whenever get_video_track returns a track, it is the track of a
\* publication that held a remote video track at the enumeration pass that
\* found it; a publication whose track is null or is an audio track is never
\* returned, and a room holding only such publications makes the pass fall
\* through to the sleep exactly as a room with no publication does.
C12_VideoTracksOnly ==
    /\ [](/\ ScanPublications(pubs, 1) = None <=> ~HasVideo(pubs)
          /\ ScanPublications(pubs, 1) # None => pubs[ScanPublications(pubs, 1)] = "video")
    /\ [][/\ TrackReturned =>
                /\ video_track' \in Slots
                /\ pubs[video_track'] = "video"
                /\ video_track' = ScanPublications(pubs, 1)
          /\ (~HasVideo(pubs) /\ search'.passes # search.passes /\ search'.ret = "pending") =>
                /\ vpc' = "search_sleep"
                /\ video_track' = None
                /\ search'.passes = (IF vpc = "search_sleep" THEN search.passes ELSE 0) + 1
         ]_vars

\* A track was returned from the second publication while the first one held
\* an audio track; the stream on it is open and has delivered nothing yet.
C12_Witness ==
    /\ vpc = "stream"
    /\ status = "open"
    /\ queue = <<>>
    /\ function_ctx.latest_image = None
    /\ video_track = 2
    /\ pubs[1] = "audio"
    /\ pubs[2] = "video"

\* ------------------------------------------------------------- C13

\* C13: the cached frame is never cleared: once a frame has been cached,
\* latest_image is not None in every later state, whatever happens to the
\* stream, the track, the background task or entrypoint, and analyze_image
\* keeps answering that it can see the video feed, for every trigger message.
C13_NeverCleared ==
    [][function_ctx.latest_image # None =>
          /\ function_ctx'.latest_image # None
          /\ \A m \in Msgs : analyze_image(function_ctx', m).ret = SeeMsg
      ]_vars

\* A frame is still cached after the stream has gone, the task has been
\* cancelled and entrypoint has returned.
C13_Witness ==
    /\ function_ctx.latest_image # None
    /\ vpc = "cancelled"
    /\ mainpc = "returned"
    /\ video_track = None
    /\ ~HasVideo(pubs)

\* ------------------------------------------------------------- C14

\* C14: the background task is cancelled and awaited on every way out of the
\* idle loop: when the loop is left because entrypoint itself is cancelled,
\* the room still connected, the cancellation of the task is requested and
\* the task awaited just as on a disconnect, and the exception goes on only
\* after the task has ended.  No task outlives entrypoint and no frame is
\* cached once entrypoint has finished.
C14_EveryExitPath ==
    /\ []((mainpc \in MainEnded /\ hist.events = Lifecycle) => vpc \in Terminated)
    /\ []((mainpc = "await_task" /\ main_exc) => vcancel \/ vpc \in Terminated)
    /\ [][/\ (mainpc = "idle_sleep" /\ main_cancel /\ mainpc' # "idle_sleep") =>
                /\ hist'.events = Lifecycle
                /\ \/ mainpc' = "await_task" /\ vcancel' /\ main_exc'
                   \/ mainpc' = "raised" /\ vpc \in Terminated
          /\ (mainpc = "await_task" /\ main_exc /\ mainpc' # "await_task") =>
                /\ mainpc' = "raised"
                /\ vpc \in Terminated
          /\ mainpc \in MainEnded =>
                /\ function_ctx' = function_ctx
                /\ vpc' = vpc
                /\ mainpc' = mainpc
         ]_vars

\* entrypoint was cancelled in its idle loop while the room was connected: the
\* task, which had cached a frame, ended cancelled, and only then did the
\* cancellation leave entrypoint.
C14_Witness ==
    /\ mainpc = "raised"
    /\ hist.events = Lifecycle
    /\ vpc = "cancelled"
    /\ connection_state = CONNECTED
    /\ function_ctx.latest_image # None

\* ------------------------------------------------------------- C15

\* C15: a cancellation request is never absorbed by the error handling of the
\* background task: wherever the task is suspended when the request is
\* pending (not yet started, sleeping in the track search, backing off,
\* waiting on the stream, sleeping in the error handler), its next step ends
\* it as cancelled; it does not go to the handler's sleep, does not go round
\* the loop and caches no frame.  A request, once made, is taken back by
\* nothing but the task's end.
C15_CancelNotAbsorbed ==
    /\ [](vcancel => vpc \in {"created", "search_sleep", "backoff", "stream", "err_sleep"})
    /\ [](vpc = "cancelled" => hist.events = Lifecycle)
    /\ [][vcancel =>
             \/ /\ vcancel'
                /\ <<vpc, video_track, function_ctx>>' = <<vpc, video_track, function_ctx>>
             \/ /\ ~vcancel'
                /\ vpc' = "cancelled"
                /\ function_ctx' = function_ctx
         ]_vars

\* The cancellation requested by the finally block has been delivered: the
\* task, which had cached a frame, has ended cancelled and entrypoint, still
\* awaiting it, has not resumed yet.
C15_Witness ==
    /\ vpc = "cancelled"
    /\ ~vcancel
    /\ mainpc = "await_task"
    /\ ~main_exc
    /\ function_ctx.latest_image # None

\* ------------------------------------------------------------- C16

\* C16: a video-processing error leaves the cached frame as it is: the step
\* in which the stream's error is raised caches nothing but the frames the
\* stream had delivered before it failed, an error raised by the track search
\* and the handler's sleep and wake-up cache nothing, and the cache changes
\* only in a step of the stream that hands over a delivered frame.
C16_ErrorKeepsFrame ==
    [][/\ (StreamErrorRaised /\ queue = <<>>) => function_ctx' = function_ctx
       /\ (StreamErrorRaised /\ queue # <<>>) =>
             function_ctx'.latest_image = queue[Len(queue)]
       /\ (vpc' = "err_sleep" /\ vpc # "stream") => function_ctx' = function_ctx
       /\ vpc = "err_sleep" => function_ctx' = function_ctx
       /\ function_ctx' # function_ctx => vpc = "stream" /\ queue # <<>> /\ ~vcancel
      ]_vars

\* The stream failed after delivering a frame: the task sleeps in the handler
\* and the frame delivered last is still the cached one.
C16_Witness ==
    /\ vpc = "err_sleep"
    /\ search.ret = "idle"
    /\ function_ctx.latest_image # None
    /\ function_ctx.latest_image = hist.last
    /\ ~vcancel

====
